---- MODULE Spec2Model ----
(***************************************************************************)
(* Call-lifecycle handling of the LiveKit / Twilio demo backend:           *)
(*   LiveKitAgentManager (services/livekit-agent-manager.js), the HTTP     *)
(*   routes of the backend (index.js) that call into it, the carrier       *)
(*   client (services/twilio.service.js), and the call state of the        *)
(*   browser-side LivekitService (app/services/livekit.service.ts).        *)
(*                                                                         *)
(* Every await on a network call is a suspension point, so every handler   *)
(* is split there: the part before the await issues the request (a record  *)
(* in one of the in-flight collections), the part after it is a separate   *)
(* action that consumes the record.  An await on an async function that    *)
(* never suspends itself (markCallEnded) is not a scheduling point for     *)
(* timers or I/O, so the code around it stays in one action.               *)
(***************************************************************************)
EXTENDS Integers, Sequences, FiniteSets, Bags, TLC

----------------------------------------------------------------------------
(* Bounds of the model                                                      *)

\* carrier calls placed in one run (each gets a fresh call SID)
MaxCalls == 2
\* network requests (makeCall, getCallInfo, endCall) pending at the same time
MaxPending == 2
\* ticks of one call's 5 s interval, in the specification with several calls
MaxPolls == 1
\* characters of a destination in a call request
MaxPhoneLen == 2
\* ticks of the browser's status polling interval, where the run is not about it
MaxUiPolls == 2
\* createAgentForRoom calls in one run
MaxAgentRequests == 4

----------------------------------------------------------------------------
(* Strings are sequences of characters, so that String.includes and string  *)
(* concatenation are computed, not assumed.                                 *)

Includes(hay, needle) ==
    \E i \in 0..(Len(hay) - Len(needle)) : SubSeq(hay, i + 1, i + Len(needle)) = needle

DigitChar == <<"1", "2", "3", "4", "5", "6", "7", "8", "9">>

\* the n-th call SID the carrier hands out
SidOf(n) == <<"C", "A", DigitChar[n]>>

Sids == {SidOf(n) : n \in 1..MaxCalls}

\* `${callSid}-extended`
ExtendedKey(callSid) == callSid \o <<"-", "e", "x", "t", "e", "n", "d", "e", "d">>

\* room names the operator uses; the second one occurs inside a call SID
MainRoom == <<"r", "m">>

Rooms == {MainRoom, <<"1">>}

----------------------------------------------------------------------------
(* Carrier status vocabulary                                                *)

TerminalStatuses == {"completed", "busy", "failed", "no-answer", "canceled"}

LiveStatuses == {"queued", "initiated", "ringing", "answered", "in-progress"}

Statuses == LiveStatuses \cup TerminalStatuses

\* how far along its life a call is at the carrier
Stage(st) ==
    CASE st = "queued"      -> 1
      [] st = "initiated"   -> 2
      [] st = "ringing"     -> 3
      [] st = "answered"    -> 4
      [] st = "in-progress" -> 5
      [] OTHER              -> 6

\* The statuses the carrier takes a call through in this model: it rings, is
\* answered and completes, or fails before it is answered.  "gone" is a call the
\* carrier has aged out: getCallInfo answers 404 for it.
CarrierSteps(st) ==
    CASE st = "queued"      -> {"ringing", "failed"}
      [] st = "ringing"     -> {"in-progress", "failed"}
      [] st = "in-progress" -> {"completed"}
      [] st \in TerminalStatuses -> {"gone"}
      [] OTHER              -> {}

\* activeCalls.get(roomName) of a room without a call
NoCall == [sid |-> <<>>, status |-> "none", connected |-> FALSE]

\* `if (pollCount === 10)`
StepDownPolls == 10

\* pollCount is only ever compared with StepDownPolls, so every count above it
\* behaves alike and the model stops counting there
PollCountCap == StepDownPolls + 1

----------------------------------------------------------------------------
VARIABLES
    activeCalls,        \* this.activeCalls: roomName -> call details
    callStatusPolling,  \* this.callStatusPolling: key -> interval handle
    timers,             \* interval handles that setInterval made and nobody cleared
    pollCount,          \* the pollCount of each startCallStatusPolling closure
    polls,              \* bag of pending getCallInfo requests of poll callbacks
    queries,            \* pending getCallInfo requests of GET /call-status
    hangups,            \* pending twilioService.endCall requests of endCall
    pendingCalls,       \* pending twilioService.makeCall requests of callPatient
    carrier,            \* the carrier's own status of each call
    nextSid,            \* index of the next call SID the carrier hands out
    notified,           \* 'call-status-update' {active: false} events emitted, per call
    ended,              \* calls whose record markCallEnded removed
    hungUp,             \* calls for which an operator endCall has completed
    uiConnected,        \* LivekitService._connected
    uiActiveCall,       \* LivekitService._activeCall
    uiCallParticipantId, \* LivekitService._callParticipantId (<<>> is null)
    uiParticipants,     \* remote participants of the room the browser is connected to
    uiResponses,        \* HTTP responses on their way to the browser
    uiMonitors,         \* audio monitoring intervals of TrackSubscribed: participant, isSipParticipant
    uiDeparted,         \* participants the room has reported as disconnected
    uiPollTimers,       \* call SIDs whose setupCallStatusPolling interval is live
    uiPollCount,        \* the pollCount of each setupCallStatusPolling closure
    requestCount,       \* POST /call requests the backend has taken up
    placements,         \* the client.calls.create requests makeCall has sent, in order
    callResponses,      \* the answers POST /call has given: request and HTTP status
    activeAgents,       \* this.activeAgents: roomName -> agent (0: no entry)
    agentRequests,      \* createAgentForRoom calls that await ensureRoomExists
    agentCount,         \* createAgentForRoom calls made so far
    agentReturns,       \* what the createAgentForRoom calls have returned
    agentRemovals       \* removeAgentFromRoom calls that deleted an entry

backendVars == <<activeCalls, callStatusPolling, timers, pollCount, polls, queries, hangups,
                 pendingCalls, carrier, nextSid, notified, ended, hungUp>>

uiPollVars == <<uiPollTimers, uiPollCount>>

uiVars == <<uiConnected, uiActiveCall, uiCallParticipantId, uiParticipants, uiResponses,
            uiMonitors, uiDeparted, uiPollVars>>

reqVars == <<requestCount, placements, callResponses>>

agentVars == <<activeAgents, agentRequests, agentCount, agentReturns, agentRemovals>>

vars == <<backendVars, uiVars, reqVars, agentVars>>

----------------------------------------------------------------------------
(* Helpers on the maps and handles                                          *)

HasCall(roomName) == activeCalls[roomName].sid # <<>>

\* the handle setInterval returns: which closure it runs and in which phase
Handle(roomName, callSid, phase, n) ==
    [room |-> roomName, sid |-> callSid, phase |-> phase, n |-> n]

\* Map.delete for a set of keys
MapRemove(m, keys) == [k \in (DOMAIN m) \ keys |-> m[k]]

\* Map.set
MapSet(m, key, value) == [k \in (DOMAIN m) \cup {key} |-> IF k = key THEN value ELSE m[k]]

\* number of network requests that are pending
Pending ==
    BagCardinality(polls) + Cardinality(queries) + Cardinality(hangups)
    + Cardinality(pendingCalls)

\* what getCallInfo answers for a call right now (a transient error aside)
CarrierAnswer(callSid) ==
    IF carrier[callSid] = "gone" THEN "404" ELSE carrier[callSid]

----------------------------------------------------------------------------
(* markCallEnded(roomName, callSid)                                         *)

\* keys whose interval markCallEnded clears and deletes: callSid itself, and
\* every key that includes the room name
ClearedKeys(polling, roomName, callSid) ==
    (IF callSid \in DOMAIN polling THEN {callSid} ELSE {})
    \cup {k \in DOMAIN polling : Includes(k, roomName)}

\* markCallEnded that stops after the first polling entry it has cleared
markCallEndedFirstKey(s, roomName, callSid) ==
    LET all == ClearedKeys(s.polling, roomName, callSid)
        keys == IF all = {} THEN {} ELSE {CHOOSE k \in all : TRUE}
    IN [calls   |-> [s.calls EXCEPT ![roomName] = NoCall],
        polling |-> MapRemove(s.polling, keys),
        timers  |-> s.timers \ {s.polling[k] : k \in keys}]

\* the state is passed as a record [calls, polling, timers] so that a handler can
\* chain the steps it takes after its await
markCallEnded(s, roomName, callSid) ==
    LET keys == ClearedKeys(s.polling, roomName, callSid)
    IN [calls   |-> [s.calls EXCEPT ![roomName] = NoCall],
        polling |-> MapRemove(s.polling, keys),
        timers  |-> s.timers \ {s.polling[k] : k \in keys}]

Now == [calls |-> activeCalls, polling |-> callStatusPolling, timers |-> timers]

\* the call whose record a markCallEnded(roomName, ...) removes, if any
Removed(roomName) == IF HasCall(roomName) THEN {activeCalls[roomName].sid} ELSE {}

Commit(s) ==
    /\ activeCalls' = s.calls
    /\ callStatusPolling' = s.polling
    /\ timers' = s.timers

----------------------------------------------------------------------------
Init ==
    /\ activeCalls = [r \in Rooms |-> NoCall]
    /\ callStatusPolling = <<>>
    /\ timers = {}
    /\ pollCount = [s \in Sids |-> 0]
    /\ polls = EmptyBag
    /\ queries = {}
    /\ hangups = {}
    /\ pendingCalls = {}
    /\ carrier = [s \in Sids |-> "none"]
    /\ nextSid = 1
    /\ notified = [s \in Sids |-> 0]
    /\ ended = {}
    /\ hungUp = {}
    /\ uiConnected = FALSE
    /\ uiActiveCall = FALSE
    /\ uiCallParticipantId = <<>>
    /\ uiParticipants = {}
    /\ uiResponses = {}
    /\ uiMonitors = {}
    /\ uiDeparted = {}
    /\ uiPollTimers = {}
    /\ uiPollCount = [s \in Sids |-> 0]
    /\ requestCount = 0
    /\ placements = <<>>
    /\ callResponses = {}
    /\ activeAgents = [r \in Rooms |-> 0]
    /\ agentRequests = {}
    /\ agentCount = 0
    /\ agentReturns = {}
    /\ agentRemovals = 0

----------------------------------------------------------------------------
(* callPatient(roomName, phoneNumber): up to `await twilioService.makeCall`  *)
(* the carrier creates the call and hands out its SID.                      *)
CallPatientStart(roomName) ==
    /\ nextSid <= MaxCalls
    /\ pendingCalls' = pendingCalls \cup {[room |-> roomName, sid |-> SidOf(nextSid)]}
    /\ carrier' = [carrier EXCEPT ![SidOf(nextSid)] = "queued"]
    /\ nextSid' = nextSid + 1
    /\ UNCHANGED <<activeCalls, callStatusPolling, timers, pollCount, polls, queries,
                   hangups, notified, ended, hungUp>>

\* startCallStatusPolling(roomName, callSid)
startCallStatusPolling(s, roomName, callSid) ==
    IF callSid \in DOMAIN s.polling
    THEN s
    ELSE LET intervalId == Handle(roomName, callSid, "initial", 0)
         IN [calls   |-> s.calls,
             polling |-> MapSet(s.polling, callSid, intervalId),
             timers  |-> s.timers \cup {intervalId}]

\* callPatient after makeCall has answered: activeCalls.set and start polling
CallPatientDone(c) ==
    /\ c \in pendingCalls
    /\ c.sid # <<>>
    /\ pendingCalls' = pendingCalls \ {c}
    /\ LET stored == [Now EXCEPT !.calls[c.room] =
                         [sid |-> c.sid, status |-> "queued", connected |-> FALSE]]
       IN Commit(startCallStatusPolling(stored, c.room, c.sid))
    /\ pollCount' = [pollCount EXCEPT ![c.sid] = 0]
    /\ UNCHANGED <<polls, queries, hangups, carrier, nextSid, notified, ended, hungUp>>

----------------------------------------------------------------------------
(* The carrier moves a call forward on its own; a finished call ages out.   *)
CarrierAdvance(callSid) ==
    /\ \E st \in CarrierSteps(carrier[callSid]) :
          carrier' = [carrier EXCEPT ![callSid] = st]
    /\ UNCHANGED <<activeCalls, callStatusPolling, timers, pollCount, polls, queries,
                   hangups, pendingCalls, nextSid, notified, ended, hungUp>>

----------------------------------------------------------------------------
(* The interval callbacks of startCallStatusPolling                         *)

\* an interval fires: the callback runs up to `await getCallInfo(callSid)`
PollTick(t) ==
    /\ t \in timers
    /\ pollCount' = IF t.phase = "initial" /\ pollCount[t.sid] < PollCountCap
                    THEN [pollCount EXCEPT ![t.sid] = @ + 1]
                    ELSE pollCount
    /\ \E res \in {CarrierAnswer(t.sid), "error"} :
          polls' = polls (+) SetToBag({[room |-> t.room, sid |-> t.sid,
                                        phase |-> t.phase, result |-> res]})
    /\ UNCHANGED <<activeCalls, callStatusPolling, timers, queries, hangups,
                   pendingCalls, carrier, nextSid, notified, ended, hungUp>>

\* lines 359-376: copy the fetched status into whatever record the room holds
StoreStatus(calls, roomName, status) ==
    IF calls[roomName].sid # <<>>
    THEN [calls EXCEPT ![roomName].status = status,
                       ![roomName].connected = @ \/ status = "in-progress"]
    ELSE calls

\* lines 385-408: clear the 5 s interval and set up the 30 s one
StepDown(s, roomName, callSid) ==
    LET used == s.timers \cup {s.polling[k] : k \in DOMAIN s.polling}
        n == CHOOSE i \in 1..(Cardinality(used) + 1) :
                /\ Handle(roomName, callSid, "extended", i) \notin used
                /\ \A j \in 1..(i - 1) : Handle(roomName, callSid, "extended", j) \in used
        newIntervalId == Handle(roomName, callSid, "extended", n)
    IN [calls   |-> s.calls,
        polling |-> MapSet(s.polling, ExtendedKey(callSid), newIntervalId),
        timers  |-> (s.timers \ {Handle(roomName, callSid, "initial", 0)})
                    \cup {newIntervalId}]

\* the 5 s callback with a catch that ends the call on every error, not only on 404
InitialPollResultAnyError(s, p) ==
    IF p.result \in {"error", "404"} THEN markCallEnded(s, p.room, p.sid)
    ELSE LET s1 == [s EXCEPT !.calls = StoreStatus(s.calls, p.room, p.result)]
             s2 == IF p.result \in TerminalStatuses
                   THEN markCallEnded(s1, p.room, p.sid) ELSE s1
         IN IF pollCount[p.sid] = StepDownPolls THEN StepDown(s2, p.room, p.sid) ELSE s2

\* the rest of the 5 s callback, after getCallInfo answered or threw
InitialPollResult(s, p) ==
    IF p.result = "error" THEN s
    ELSE IF p.result = "404" THEN markCallEnded(s, p.room, p.sid)
    ELSE LET s1 == [s EXCEPT !.calls = StoreStatus(s.calls, p.room, p.result)]
             s2 == IF p.result \in TerminalStatuses
                   THEN markCallEnded(s1, p.room, p.sid) ELSE s1
         IN IF pollCount[p.sid] = StepDownPolls THEN StepDown(s2, p.room, p.sid) ELSE s2

\* the rest of the 30 s callback
ExtendedPollResult(s, p) ==
    IF p.result \in TerminalStatuses \cup {"404"}
    THEN markCallEnded(s, p.room, p.sid)
    ELSE s

\* does this poll result lead to a markCallEnded call?
PollEnds(p) == p.result \in TerminalStatuses \cup {"404"}

PollDone(p) ==
    /\ BagIn(p, polls)
    /\ polls' = polls (-) SetToBag({p})
    /\ Commit(IF p.phase = "initial" THEN InitialPollResult(Now, p)
                                     ELSE ExtendedPollResult(Now, p))
    /\ ended' = IF PollEnds(p) THEN ended \cup Removed(p.room) ELSE ended
    /\ UNCHANGED <<pollCount, queries, hangups, pendingCalls, carrier, nextSid,
                   notified, hungUp>>

----------------------------------------------------------------------------
(* GET /call-status/:room                                                   *)

\* up to `await twilioService.getCallInfo(callDetails.sid)`, for a call older than
\* 5 s; callDetails is the record object, which the pending request keeps
CallStatusStart(roomName) ==
    /\ HasCall(roomName)
    /\ \E res \in {CarrierAnswer(activeCalls[roomName].sid), "error"} :
          queries' = queries \cup {[room |-> roomName, sid |-> activeCalls[roomName].sid,
                                    result |-> res]}
    /\ queries' # queries
    /\ UNCHANGED <<activeCalls, callStatusPolling, timers, pollCount, polls, hangups,
                   pendingCalls, carrier, nextSid, notified, ended, hungUp>>

\* lines 270-283: write the fetched status into callDetails.  The object is the
\* one of call q.sid; the write shows in activeCalls only while the map holds it.
CallStatusResult(calls, q) ==
    IF q.result \in Statuses /\ calls[q.room].sid = q.sid
    THEN [calls EXCEPT ![q.room].status = q.result,
                       ![q.room].connected = @ \/ q.result \in {"in-progress", "answered"}]
    ELSE calls

CallStatusDone(q) ==
    /\ q \in queries
    /\ queries' = queries \ {q}
    /\ activeCalls' = CallStatusResult(activeCalls, q)
    /\ UNCHANGED <<callStatusPolling, timers, pollCount, polls, hangups, pendingCalls,
                   carrier, nextSid, notified, ended, hungUp>>

----------------------------------------------------------------------------
(* endCall(roomName), reached from POST /hangup                             *)

\* up to `await twilioService.endCall(callDetails.sid)`
EndCallStart(roomName) ==
    /\ HasCall(roomName)
    /\ hangups' = hangups \cup {[room |-> roomName, sid |-> activeCalls[roomName].sid]}
    /\ hangups' # hangups
    /\ UNCHANGED <<activeCalls, callStatusPolling, timers, pollCount, polls, queries,
                   pendingCalls, carrier, nextSid, notified, ended, hungUp>>

\* the carrier hangs a live call up: canceled before it was answered, completed after
HungUpStatus(status) == IF Stage(status) >= Stage("answered") THEN "completed" ELSE "canceled"

\* endCall without its inner try/catch: a carrier error skips markCallEnded
EndCallResultRethrown(s, h, carrierOk) ==
    IF carrierOk THEN markCallEnded(s, h.room, h.sid) ELSE s

\* after the carrier request returned (carrierOk) or threw: the catch swallows the
\* error and markCallEnded runs either way
EndCallResult(s, h, carrierOk) == markCallEnded(s, h.room, h.sid)

EndCallDone(h, carrierOk) ==
    /\ h \in hangups
    /\ hangups' = hangups \ {h}
    /\ IF carrierOk
       THEN /\ carrier[h.sid] \in LiveStatuses
            /\ carrier' = [carrier EXCEPT ![h.sid] = HungUpStatus(@)]
       ELSE UNCHANGED carrier
    /\ Commit(EndCallResult(Now, h, carrierOk))
    /\ ended' = ended \cup Removed(h.room)
    /\ hungUp' = hungUp \cup {h.sid}
    /\ UNCHANGED <<pollCount, polls, queries, pendingCalls, nextSid, notified>>

----------------------------------------------------------------------------
(* POST /twilio/call-status: the carrier's status webhook.  The carrier may *)
(* deliver any status the call has been through, late and more than once.   *)

\* the rooms whose record holds this call SID (the loop stops at the first)
RoomsOfSid(calls, callSid) == {r \in Rooms : calls[r].sid = callSid}

\* lines 355-378: a terminal status ends the call of the room that holds the SID;
\* any other status is only logged
TwilioCallStatusResult(s, callSid, callStatus) ==
    IF callStatus \in TerminalStatuses /\ RoomsOfSid(s.calls, callSid) # {}
    THEN markCallEnded(s, CHOOSE r \in RoomsOfSid(s.calls, callSid) : TRUE, callSid)
    ELSE s

TwilioCallStatus(callSid, callStatus) ==
    /\ carrier[callSid] \in Statuses
    /\ \/ callStatus \in LiveStatuses /\ Stage(callStatus) <= Stage(carrier[callSid])
       \/ callStatus = carrier[callSid]
    /\ Commit(TwilioCallStatusResult(Now, callSid, callStatus))
    /\ IF callStatus \in TerminalStatuses /\ RoomsOfSid(activeCalls, callSid) # {}
       THEN /\ notified' = [notified EXCEPT ![callSid] = @ + 1]
            /\ ended' = ended \cup {callSid}
       ELSE UNCHANGED <<notified, ended>>
    /\ UNCHANGED <<pollCount, polls, queries, hangups, pendingCalls, carrier, nextSid,
                   hungUp>>

----------------------------------------------------------------------------
(* LivekitService in the browser (the call-related part)                    *)

SipMark == <<"s", "i", "p", ":">>
PhoneMark == <<"p", "h", "o", "n", "e", ":">>
TwilioMark == <<"t", "w", "i", "l", "i", "o">>
PlusMark == <<"+">>
Digits == {"0", "1", "2", "3", "4", "5", "6", "7", "8", "9"}

\* /^\d+$/.test(identity)
AllDigits(identity) ==
    Len(identity) > 0 /\ \A i \in 1..Len(identity) : identity[i] \in Digits

\* isSipParticipant of the ParticipantConnected listener
IsSipParticipant(participant, callParticipantId) ==
    \/ Includes(participant.identity, SipMark)
    \/ Includes(participant.identity, PhoneMark)
    \/ Includes(participant.identity, TwilioMark)
    \/ Includes(participant.identity, PlusMark)
    \/ AllDigits(participant.identity)
    \/ /\ callParticipantId # <<>>
       /\ \/ participant.sid = callParticipantId
          \/ Includes(participant.identity, callParticipantId)

\* the participants the media layer may report: the called party's SIP leg, and
\* another browser user
Participants ==
    {[identity |-> <<"s", "i", "p", ":", "+", "1">>, sid |-> <<"P", "A", "1">>],
     [identity |-> <<"n", "u", "r", "s", "e">>, sid |-> <<"P", "A", "2">>]}

\* connect(): token, Room, listeners, room.connect
UiConnect ==
    /\ ~uiConnected
    /\ uiConnected' = TRUE
    /\ UNCHANGED <<uiActiveCall, uiCallParticipantId, uiParticipants, uiResponses,
                   uiMonitors, uiDeparted>>
    /\ UNCHANGED uiPollVars

\* disconnect(), and the room's Disconnected event, which resets the same fields
UiDisconnect ==
    /\ uiConnected
    /\ uiConnected' = FALSE
    /\ uiParticipants' = {}
    /\ uiActiveCall' = FALSE
    /\ uiCallParticipantId' = <<>>
    /\ UNCHANGED <<uiResponses, uiMonitors, uiDeparted>>
    /\ UNCHANGED uiPollVars

\* callPatient, lines 130-145: the answer to POST /call has arrived; the last line
\* is setupCallStatusPolling(roomName, response.callSid)
UiCallResponse(m) ==
    /\ m \in uiResponses
    /\ m.kind = "call"
    /\ uiResponses' = uiResponses \ {m}
    /\ uiActiveCall' = TRUE
    /\ uiCallParticipantId' = m.sid
    /\ uiPollTimers' = uiPollTimers \cup {m.sid}
    /\ uiPollCount' = [uiPollCount EXCEPT ![m.sid] = 0]
    /\ UNCHANGED <<uiConnected, uiParticipants, uiMonitors, uiDeparted>>

\* hangupCall, lines 168-177: the answer to POST /hangup has arrived, or failed
UiHangupResponse(m) ==
    /\ m \in uiResponses
    /\ m.kind = "hangup"
    /\ uiResponses' = uiResponses \ {m}
    /\ uiActiveCall' = FALSE
    /\ uiCallParticipantId' = <<>>
    /\ UNCHANGED <<uiConnected, uiParticipants, uiMonitors, uiDeparted>>
    /\ UNCHANGED uiPollVars

\* the listener without `_callParticipantId.next(participant.sid)`
ParticipantConnectedUnrecorded(participant) ==
    /\ uiConnected
    /\ participant \notin uiParticipants
    /\ uiParticipants' = uiParticipants \cup {participant}
    /\ IF IsSipParticipant(participant, uiCallParticipantId)
       THEN uiActiveCall' = TRUE /\ UNCHANGED uiCallParticipantId
       ELSE UNCHANGED <<uiActiveCall, uiCallParticipantId>>
    /\ UNCHANGED <<uiConnected, uiResponses, uiMonitors, uiDeparted>>
    /\ UNCHANGED uiPollVars

\* RoomEvent.ParticipantConnected
ParticipantConnected(participant) ==
    /\ uiConnected
    /\ participant \notin uiParticipants
    /\ uiParticipants' = uiParticipants \cup {participant}
    /\ IF IsSipParticipant(participant, uiCallParticipantId)
       THEN /\ uiActiveCall' = TRUE
            /\ uiCallParticipantId' = participant.sid
       ELSE UNCHANGED <<uiActiveCall, uiCallParticipantId>>
    /\ UNCHANGED <<uiConnected, uiResponses, uiMonitors, uiDeparted>>
    /\ UNCHANGED uiPollVars

\* the listener without the test `participant.sid === this._callParticipantId.value`
ParticipantDisconnectedAny(participant) ==
    /\ uiConnected
    /\ participant \in uiParticipants
    /\ uiParticipants' = uiParticipants \ {participant}
    /\ uiDeparted' = uiDeparted \cup {participant}
    /\ uiActiveCall' = FALSE
    /\ uiCallParticipantId' = <<>>
    /\ UNCHANGED <<uiConnected, uiResponses, uiMonitors>>
    /\ UNCHANGED uiPollVars

\* RoomEvent.ParticipantDisconnected
ParticipantDisconnected(participant) ==
    /\ uiConnected
    /\ participant \in uiParticipants
    /\ uiParticipants' = uiParticipants \ {participant}
    /\ uiDeparted' = uiDeparted \cup {participant}
    /\ IF participant.sid = uiCallParticipantId
       THEN /\ uiActiveCall' = FALSE
            /\ uiCallParticipantId' = <<>>
       ELSE UNCHANGED <<uiActiveCall, uiCallParticipantId>>
    /\ UNCHANGED <<uiConnected, uiResponses, uiMonitors>>
    /\ UNCHANGED uiPollVars

\* RoomEvent.TrackSubscribed for the audio track of a remote participant: mark the
\* call active if none is shown, and start the 2 s audio monitoring interval, whose
\* closure keeps isSipParticipant
TrackSubscribed(participant) ==
    /\ uiConnected
    /\ participant \in uiParticipants
    /\ \A m \in uiMonitors : m.participant # participant
    /\ LET isSipParticipant == IsSipParticipant(participant, uiCallParticipantId)
       IN /\ IF isSipParticipant /\ ~uiActiveCall
             THEN /\ uiActiveCall' = TRUE
                  /\ uiCallParticipantId' = participant.sid
             ELSE UNCHANGED <<uiActiveCall, uiCallParticipantId>>
          /\ uiMonitors' = uiMonitors \cup {[participant |-> participant,
                                             isSipParticipant |-> isSipParticipant]}
    /\ UNCHANGED <<uiConnected, uiParticipants, uiResponses, uiDeparted>>
    /\ UNCHANGED uiPollVars

\* the audio monitoring interval fires while its participant is speaking
AudioActivity(m) ==
    /\ m \in uiMonitors
    /\ uiConnected
    /\ m.participant \in uiParticipants
    /\ uiActiveCall' = (uiActiveCall \/ m.isSipParticipant)
    /\ UNCHANGED <<uiConnected, uiCallParticipantId, uiParticipants, uiResponses,
                   uiMonitors, uiDeparted>>
    /\ UNCHANGED uiPollVars

\* TrackEvent.Ended: clearInterval(audioMonitoringInterval)
TrackEnded(m) ==
    /\ m \in uiMonitors
    /\ uiMonitors' = uiMonitors \ {m}
    /\ UNCHANGED <<uiConnected, uiActiveCall, uiCallParticipantId, uiParticipants,
                   uiResponses, uiDeparted>>
    /\ UNCHANGED uiPollVars

\* const maxPolls = 15
UiMaxPolls == 15

\* the statuses for which the status poll forces the call active
UiActiveStatuses == {"in-progress", "answered", "ringing", "queued"}

LowerChar(c) ==
    CASE c = "P" -> "p" [] c = "H" -> "h" [] c = "O" -> "o" [] c = "N" -> "n"
      [] c = "E" -> "e" [] OTHER -> c

\* identity.toLowerCase()
ToLower(identity) == [i \in 1..Len(identity) |-> LowerChar(identity[i])]

\* couldBePhoneParticipant of the missed-participant scan
CouldBePhoneParticipant(participant) ==
    \/ Includes(participant.identity, SipMark)
    \/ Includes(participant.identity, PhoneMark)
    \/ Includes(participant.identity, TwilioMark)
    \/ Includes(participant.identity, PlusMark)
    \/ AllDigits(participant.identity)
    \/ Includes(ToLower(participant.identity), <<"p", "h", "o", "n", "e">>)

\* the 2 s interval of setupCallStatusPolling fires: count, stop after maxPolls, and
\* GET /call-status/:room reaches the backend, which answers at once (no record, or
\* a call not older than 5 s) or asks the carrier first
UiPollTick(callSid, roomName) ==
    /\ callSid \in uiPollTimers
    /\ uiPollCount' = [uiPollCount EXCEPT ![callSid] = @ + 1]
    /\ uiPollTimers' = IF uiPollCount[callSid] + 1 >= UiMaxPolls
                       THEN uiPollTimers \ {callSid} ELSE uiPollTimers
    /\ \/ /\ uiResponses' = uiResponses \cup
                {[kind |-> "status", sid |-> callSid,
                  status |-> IF HasCall(roomName) THEN activeCalls[roomName].status
                                                  ELSE "no-call"]}
          /\ UNCHANGED queries
       \/ /\ HasCall(roomName)
          /\ \E res \in {CarrierAnswer(activeCalls[roomName].sid), "error"} :
                queries' = queries \cup
                   {[room |-> roomName, sid |-> activeCalls[roomName].sid, result |-> res,
                     stored |-> activeCalls[roomName].status, poll |-> callSid]}
          /\ queries' # queries
          /\ UNCHANGED uiResponses
    /\ UNCHANGED <<activeCalls, callStatusPolling, timers, pollCount, polls, hangups,
                   pendingCalls, carrier, nextSid, notified, ended, hungUp>>
    /\ UNCHANGED <<uiConnected, uiActiveCall, uiCallParticipantId, uiParticipants,
                   uiMonitors, uiDeparted>>

\* res.json of GET /call-status after the carrier answered or threw: the fetched
\* status, or the one the record had when the request came in
CallStatusAnswer(q) ==
    [kind |-> "status", sid |-> q.poll,
     status |-> IF q.result \in Statuses THEN q.result ELSE q.stored]

\* the `next` handler without clearInterval(pollInterval) for a terminal status
UiStatusResponseKeepsPolling(m) ==
    /\ m \in uiResponses
    /\ m.kind = "status"
    /\ uiResponses' = uiResponses \ {m}
    /\ IF m.status \in UiActiveStatuses
       THEN /\ uiActiveCall' = TRUE
            /\ LET found == {x \in uiParticipants : CouldBePhoneParticipant(x)}
               IN IF uiConnected /\ found # {}
                  THEN \E x \in found : uiCallParticipantId' = x.sid
                  ELSE UNCHANGED uiCallParticipantId
            /\ UNCHANGED uiPollTimers
       ELSE IF m.status \in TerminalStatuses
       THEN /\ uiActiveCall' = FALSE
            /\ uiCallParticipantId' = <<>>
            /\ UNCHANGED uiPollTimers
       ELSE UNCHANGED <<uiActiveCall, uiCallParticipantId, uiPollTimers>>
    /\ UNCHANGED <<uiConnected, uiParticipants, uiMonitors, uiDeparted, uiPollCount>>

\* the `next` handler of the status poll, lines 373-422
UiStatusResponse(m) ==
    /\ m \in uiResponses
    /\ m.kind = "status"
    /\ uiResponses' = uiResponses \ {m}
    /\ IF m.status \in UiActiveStatuses
       THEN /\ uiActiveCall' = TRUE
            /\ LET found == {x \in uiParticipants : CouldBePhoneParticipant(x)}
               IN IF uiConnected /\ found # {}
                  THEN \E x \in found : uiCallParticipantId' = x.sid
                  ELSE UNCHANGED uiCallParticipantId
            /\ UNCHANGED uiPollTimers
       ELSE IF m.status \in TerminalStatuses
       THEN /\ uiActiveCall' = FALSE
            /\ uiCallParticipantId' = <<>>
            /\ uiPollTimers' = uiPollTimers \ {m.sid}
       ELSE UNCHANGED <<uiActiveCall, uiCallParticipantId, uiPollTimers>>
    /\ UNCHANGED <<uiConnected, uiParticipants, uiMonitors, uiDeparted, uiPollCount>>

\* the browser is told the outcome of a request the backend has finished
Respond(m) ==
    /\ uiResponses' = uiResponses \cup {m}
    /\ UNCHANGED <<uiConnected, uiActiveCall, uiCallParticipantId, uiParticipants,
                   uiMonitors, uiDeparted>>
    /\ UNCHANGED uiPollVars

----------------------------------------------------------------------------
(* The backend alone: one room, several calls.  The 5 s interval of a call  *)
(* ticks at most MaxPolls times here; the polling schedule beyond that is   *)
(* the subject of SpecPolling.                                              *)
Next ==
    \/ Pending < MaxPending /\ CallPatientStart(MainRoom) /\ UNCHANGED <<uiVars, reqVars, agentVars>>
    \/ \E c \in pendingCalls : CallPatientDone(c) /\ UNCHANGED <<uiVars, reqVars, agentVars>>
    \/ \E s \in Sids : CarrierAdvance(s) /\ UNCHANGED <<uiVars, reqVars, agentVars>>
    \/ \E t \in timers : /\ Pending < MaxPending
                         /\ pollCount[t.sid] < MaxPolls
                         /\ PollTick(t)
                         /\ UNCHANGED <<uiVars, reqVars, agentVars>>
    \/ \E p \in BagToSet(polls) : PollDone(p) /\ UNCHANGED <<uiVars, reqVars, agentVars>>
    \/ Pending < MaxPending /\ CallStatusStart(MainRoom) /\ UNCHANGED <<uiVars, reqVars, agentVars>>
    \/ \E q \in queries : CallStatusDone(q) /\ UNCHANGED <<uiVars, reqVars, agentVars>>
    \/ Pending < MaxPending /\ EndCallStart(MainRoom) /\ UNCHANGED <<uiVars, reqVars, agentVars>>
    \/ \E h \in hangups, ok \in BOOLEAN : EndCallDone(h, ok) /\ UNCHANGED <<uiVars, reqVars, agentVars>>
    \/ \E s \in Sids, st \in Statuses : TwilioCallStatus(s, st) /\ UNCHANGED <<uiVars, reqVars, agentVars>>

Spec == Init /\ [][Next]_vars

----------------------------------------------------------------------------
(* The polling schedule of one call, followed through the step-down after   *)
(* StepDownPolls ticks and into the 30 s phase.                             *)
NextPolling ==
    \/ /\ nextSid = 1
       /\ Pending < MaxPending
       /\ CallPatientStart(MainRoom)
       /\ UNCHANGED <<uiVars, reqVars, agentVars>>
    \/ \E c \in pendingCalls : CallPatientDone(c) /\ UNCHANGED <<uiVars, reqVars, agentVars>>
    \/ \E s \in Sids : CarrierAdvance(s) /\ UNCHANGED <<uiVars, reqVars, agentVars>>
    \/ \E t \in timers : Pending < MaxPending /\ PollTick(t) /\ UNCHANGED <<uiVars, reqVars, agentVars>>
    \/ \E p \in BagToSet(polls) : PollDone(p) /\ UNCHANGED <<uiVars, reqVars, agentVars>>
    \/ Pending < MaxPending /\ EndCallStart(MainRoom) /\ UNCHANGED <<uiVars, reqVars, agentVars>>
    \/ \E h \in hangups, ok \in BOOLEAN : EndCallDone(h, ok) /\ UNCHANGED <<uiVars, reqVars, agentVars>>
    \/ \E s \in Sids, st \in Statuses : TwilioCallStatus(s, st) /\ UNCHANGED <<uiVars, reqVars, agentVars>>

SpecPolling == Init /\ [][NextPolling]_vars

\* Node keeps firing a live interval and every carrier request returns or fails
\* in the end; nothing obliges the carrier or the operator to act.
FairPolling ==
    /\ SpecPolling
    /\ WF_vars(\E t \in timers : Pending < MaxPending /\ PollTick(t) /\ UNCHANGED <<uiVars, reqVars, agentVars>>)
    /\ WF_vars(\E p \in BagToSet(polls) : PollDone(p) /\ UNCHANGED <<uiVars, reqVars, agentVars>>)
    /\ WF_vars(\E c \in pendingCalls : CallPatientDone(c) /\ UNCHANGED <<uiVars, reqVars, agentVars>>)
    /\ WF_vars(\E h \in hangups, ok \in BOOLEAN : EndCallDone(h, ok) /\ UNCHANGED <<uiVars, reqVars, agentVars>>)

----------------------------------------------------------------------------
(* One call placed and ended from the browser, with the media layer's       *)
(* participant events.                                                      *)
NextUI ==
    \/ UiConnect /\ UNCHANGED <<backendVars, reqVars, agentVars>>
    \/ UiDisconnect /\ UNCHANGED <<backendVars, reqVars, agentVars>>
    \/ /\ uiConnected
       /\ nextSid = 1
       /\ Pending < MaxPending
       /\ CallPatientStart(MainRoom)
       /\ UNCHANGED <<uiVars, reqVars, agentVars>>
    \/ \E c \in pendingCalls :
          /\ CallPatientDone(c)
          /\ Respond([kind |-> "call", sid |-> c.sid])
          /\ UNCHANGED <<reqVars, agentVars>>
    \/ \E m \in uiResponses : UiCallResponse(m) /\ UNCHANGED <<backendVars, reqVars, agentVars>>
    \/ \E s \in Sids : CarrierAdvance(s) /\ UNCHANGED <<uiVars, reqVars, agentVars>>
    \/ \E t \in timers : /\ Pending < MaxPending
                         /\ pollCount[t.sid] < MaxPolls
                         /\ PollTick(t)
                         /\ UNCHANGED <<uiVars, reqVars, agentVars>>
    \/ \E p \in BagToSet(polls) : PollDone(p) /\ UNCHANGED <<uiVars, reqVars, agentVars>>
    \/ Pending < MaxPending /\ EndCallStart(MainRoom) /\ UNCHANGED <<uiVars, reqVars, agentVars>>
    \/ \E h \in hangups, ok \in BOOLEAN :
          /\ EndCallDone(h, ok)
          /\ Respond([kind |-> "hangup", sid |-> <<>>])
          /\ UNCHANGED <<reqVars, agentVars>>
    \/ \E m \in uiResponses : UiHangupResponse(m) /\ UNCHANGED <<backendVars, reqVars, agentVars>>
    \/ \E s \in Sids, st \in Statuses : TwilioCallStatus(s, st) /\ UNCHANGED <<uiVars, reqVars, agentVars>>
    \/ \E x \in Participants : ParticipantConnected(x) /\ UNCHANGED <<backendVars, reqVars, agentVars>>
    \/ \E x \in Participants : ParticipantDisconnected(x) /\ UNCHANGED <<backendVars, reqVars, agentVars>>
    \/ \E x \in Participants : TrackSubscribed(x) /\ UNCHANGED <<backendVars, reqVars, agentVars>>
    \/ \E m \in uiMonitors : AudioActivity(m) /\ UNCHANGED <<backendVars, reqVars, agentVars>>
    \/ \E m \in uiMonitors : TrackEnded(m) /\ UNCHANGED <<backendVars, reqVars, agentVars>>

SpecUI == Init /\ [][NextUI]_vars

----------------------------------------------------------------------------
(* One call placed from the browser and followed by its status polling,     *)
(* with participants joining and leaving.                                   *)
NextUIPoll ==
    \/ UiConnect /\ UNCHANGED <<backendVars, reqVars, agentVars>>
    \/ UiDisconnect /\ UNCHANGED <<backendVars, reqVars, agentVars>>
    \/ /\ uiConnected
       /\ nextSid = 1
       /\ Pending < MaxPending
       /\ CallPatientStart(MainRoom)
       /\ UNCHANGED <<uiVars, reqVars, agentVars>>
    \/ \E c \in pendingCalls :
          /\ CallPatientDone(c)
          /\ Respond([kind |-> "call", sid |-> c.sid])
          /\ UNCHANGED <<reqVars, agentVars>>
    \/ \E m \in uiResponses : UiCallResponse(m) /\ UNCHANGED <<backendVars, reqVars, agentVars>>
    \/ \E s \in Sids : CarrierAdvance(s) /\ UNCHANGED <<uiVars, reqVars, agentVars>>
    \/ \E s \in uiPollTimers : /\ Pending + Cardinality(uiResponses) < MaxPending
                                /\ uiPollCount[s] < MaxUiPolls
                                /\ UiPollTick(s, MainRoom)
                                /\ UNCHANGED <<reqVars, agentVars>>
    \/ \E q \in queries : CallStatusDone(q) /\ Respond(CallStatusAnswer(q)) /\ UNCHANGED <<reqVars, agentVars>>
    \/ \E m \in uiResponses : UiStatusResponse(m) /\ UNCHANGED <<backendVars, reqVars, agentVars>>
    \/ Pending < MaxPending /\ EndCallStart(MainRoom) /\ UNCHANGED <<uiVars, reqVars, agentVars>>
    \/ \E h \in hangups, ok \in BOOLEAN :
          /\ EndCallDone(h, ok)
          /\ Respond([kind |-> "hangup", sid |-> <<>>])
          /\ UNCHANGED <<reqVars, agentVars>>
    \/ \E m \in uiResponses : UiHangupResponse(m) /\ UNCHANGED <<backendVars, reqVars, agentVars>>
    \/ \E x \in Participants : ParticipantConnected(x) /\ UNCHANGED <<backendVars, reqVars, agentVars>>
    \/ \E x \in Participants : ParticipantDisconnected(x) /\ UNCHANGED <<backendVars, reqVars, agentVars>>

SpecUIPoll == Init /\ [][NextUIPoll]_vars

----------------------------------------------------------------------------
(* POST /call from the request body to the answer: validation in the route, *)
(* normalizePhoneNumber and client.calls.create in makeCall.                *)

\* /[\s\-\(\)]/g
StripChars == {" ", "-", "(", ")"}

\* phoneNumber.replace(/[\s\-\(\)]/g, '')
RECURSIVE Strip(_)
Strip(str) ==
    IF str = <<>> THEN <<>>
    ELSE IF Head(str) \in StripChars THEN Strip(Tail(str))
    ELSE <<Head(str)>> \o Strip(Tail(str))

StartsWith(str, ch) == Len(str) > 0 /\ str[1] = ch

normalizePhoneNumber(phoneNumber) ==
    LET normalized == Strip(phoneNumber)
    IN IF StartsWith(normalized, "+") THEN normalized
       ELSE IF StartsWith(normalized, "1") THEN <<"+">> \o normalized
       ELSE <<"+", "1">> \o normalized

\* !phoneNumber || phoneNumber.trim() === ''
Blank(phoneNumber) == \A i \in 1..Len(phoneNumber) : phoneNumber[i] = " "

\* characters of the destinations an operator may type
PhoneChars == {"+", "1", "5", "-", " ", "a"}

PhoneNumbers == UNION {[1..n -> PhoneChars] : n \in 0..MaxPhoneLen}

\* req.body of POST /call; <<>> is a field that is missing
Bodies == [room : {<<>>, MainRoom}, phoneNumber : PhoneNumbers]

\* a number in E.164 form: '+', a first digit that is not 0, at most 15 digits
IsE164(to) ==
    /\ Len(to) >= 3 /\ Len(to) <= 16
    /\ to[1] = "+"
    /\ to[2] \in Digits \ {"0"}
    /\ \A i \in 3..Len(to) : to[i] \in Digits

\* makeCall up to `await this.client.calls.create`, when the request is going to
\* fail (carrier unreachable, or number refused): no call and no SID come of it
MakeCallFailing(roomName) ==
    /\ pendingCalls' = pendingCalls \cup {[room |-> roomName, sid |-> <<>>]}
    /\ UNCHANGED <<activeCalls, callStatusPolling, timers, pollCount, polls, queries,
                   hangups, carrier, nextSid, notified, ended, hungUp>>

\* the route takes a request up: 400 for a missing room or a missing or blank
\* number, else callPatient up to the carrier request.  The carrier creates a call
\* only for a well-formed number.
PostCall(body) ==
    /\ requestCount' = requestCount + 1
    /\ IF body.room = <<>> \/ Blank(body.phoneNumber)
       THEN /\ callResponses' = callResponses \cup {[req |-> requestCount + 1, status |-> 400]}
            /\ UNCHANGED <<backendVars, placements>>
       ELSE LET to == normalizePhoneNumber(body.phoneNumber)
            IN /\ placements' = Append(placements,
                                     [req |-> requestCount + 1, room |-> body.room,
                                      phoneNumber |-> body.phoneNumber, to |-> to])
               /\ \/ IsE164(to) /\ CallPatientStart(body.room)
                  \/ MakeCallFailing(body.room)
               /\ UNCHANGED callResponses

\* makeCall returned: callPatient stores the record and the route answers 200
PostCallDone(c) ==
    /\ CallPatientDone(c)
    /\ callResponses' = callResponses \cup {[req |-> requestCount, status |-> 200]}
    /\ UNCHANGED <<requestCount, placements>>

\* a callPatient that stores a record for the call before it knows whether the
\* carrier accepted it, and leaves the record behind when makeCall throws
PostCallFailedStored(c) ==
    /\ c \in pendingCalls
    /\ c.sid = <<>>
    /\ pendingCalls' = pendingCalls \ {c}
    /\ callResponses' = callResponses \cup {[req |-> requestCount, status |-> 500]}
    /\ activeCalls' = [activeCalls EXCEPT ![c.room] =
                          [sid |-> <<>>, status |-> "failed", connected |-> FALSE]]
    /\ UNCHANGED <<callStatusPolling, timers, pollCount, polls, queries,
                   hangups, carrier, nextSid, notified, ended, hungUp>>
    /\ UNCHANGED <<requestCount, placements>>

\* makeCall threw: callPatient rethrows and the route answers 500
PostCallFailed(c) ==
    /\ c \in pendingCalls
    /\ c.sid = <<>>
    /\ pendingCalls' = pendingCalls \ {c}
    /\ callResponses' = callResponses \cup {[req |-> requestCount, status |-> 500]}
    /\ UNCHANGED <<activeCalls, callStatusPolling, timers, pollCount, polls, queries,
                   hangups, carrier, nextSid, notified, ended, hungUp>>
    /\ UNCHANGED <<requestCount, placements>>

\* Call requests handled one after the other, with every kind of body.
NextRequest ==
    \/ \E body \in Bodies : /\ requestCount < MaxCalls
                            /\ pendingCalls = {}
                            /\ PostCall(body)
                            /\ UNCHANGED <<uiVars, agentVars>>
    \/ \E c \in pendingCalls : PostCallDone(c) /\ UNCHANGED <<uiVars, agentVars>>
    \/ \E c \in pendingCalls : PostCallFailed(c) /\ UNCHANGED <<uiVars, agentVars>>

SpecRequest == Init /\ [][NextRequest]_vars

----------------------------------------------------------------------------
(* The browser's status polling of one call, followed to its last tick.     *)
NextUiPolling ==
    \/ UiConnect /\ UNCHANGED <<backendVars, reqVars, agentVars>>
    \/ /\ uiConnected
       /\ nextSid = 1
       /\ Pending < MaxPending
       /\ CallPatientStart(MainRoom)
       /\ UNCHANGED <<uiVars, reqVars, agentVars>>
    \/ \E c \in pendingCalls :
          /\ CallPatientDone(c)
          /\ Respond([kind |-> "call", sid |-> c.sid])
          /\ UNCHANGED <<reqVars, agentVars>>
    \/ \E m \in uiResponses : UiCallResponse(m) /\ UNCHANGED <<backendVars, reqVars, agentVars>>
    \/ \E s \in Sids : CarrierAdvance(s) /\ UNCHANGED <<uiVars, reqVars, agentVars>>
    \/ \E s \in uiPollTimers : /\ Pending + Cardinality(uiResponses) < MaxPending
                                /\ UiPollTick(s, MainRoom)
                                /\ UNCHANGED <<reqVars, agentVars>>
    \/ \E q \in queries : CallStatusDone(q) /\ Respond(CallStatusAnswer(q)) /\ UNCHANGED <<reqVars, agentVars>>
    \/ \E m \in uiResponses : UiStatusResponse(m) /\ UNCHANGED <<backendVars, reqVars, agentVars>>
    \/ Pending < MaxPending /\ EndCallStart(MainRoom) /\ UNCHANGED <<uiVars, reqVars, agentVars>>
    \/ \E h \in hangups, ok \in BOOLEAN :
          /\ EndCallDone(h, ok)
          /\ Respond([kind |-> "hangup", sid |-> <<>>])
          /\ UNCHANGED <<reqVars, agentVars>>
    \/ \E m \in uiResponses : UiHangupResponse(m) /\ UNCHANGED <<backendVars, reqVars, agentVars>>
    \/ \E s \in Sids, st \in Statuses : TwilioCallStatus(s, st) /\ UNCHANGED <<uiVars, reqVars, agentVars>>

SpecUiPolling == Init /\ [][NextUiPolling]_vars

----------------------------------------------------------------------------
(* The sites that decide whether a participant is the called party, applied *)
(* to participants with identities of several kinds.                        *)

\* isSipParticipant of CallComponent
ComponentIsSipParticipant(participant) ==
    /\ participant.identity # <<>>
    /\ \/ Includes(participant.identity, SipMark)
       \/ Includes(participant.identity, PhoneMark)
       \/ Includes(participant.identity, TwilioMark)
       \/ Includes(participant.identity, PlusMark)
       \/ AllDigits(participant.identity)

\* the called party's SIP leg, a user who joined as 'Phone', and a user whose
\* identity is the text of the first call SID
AnyParticipants ==
    {[identity |-> <<"s", "i", "p", ":", "+", "1">>, sid |-> <<"P", "A", "1">>],
     [identity |-> <<"P", "h", "o", "n", "e">>, sid |-> <<"P", "A", "3">>],
     [identity |-> SidOf(1), sid |-> <<"P", "A", "4">>]}

NextClassify ==
    \/ UiConnect /\ UNCHANGED <<backendVars, reqVars, agentVars>>
    \/ /\ uiConnected
       /\ nextSid = 1
       /\ Pending < MaxPending
       /\ CallPatientStart(MainRoom)
       /\ UNCHANGED <<uiVars, reqVars, agentVars>>
    \/ \E c \in pendingCalls :
          /\ CallPatientDone(c)
          /\ Respond([kind |-> "call", sid |-> c.sid])
          /\ UNCHANGED <<reqVars, agentVars>>
    \/ \E m \in uiResponses : UiCallResponse(m) /\ UNCHANGED <<backendVars, reqVars, agentVars>>
    \/ \E s \in uiPollTimers : /\ Pending + Cardinality(uiResponses) < MaxPending
                                /\ uiPollCount[s] < MaxUiPolls
                                /\ UiPollTick(s, MainRoom)
                                /\ UNCHANGED <<reqVars, agentVars>>
    \/ \E q \in queries : CallStatusDone(q) /\ Respond(CallStatusAnswer(q)) /\ UNCHANGED <<reqVars, agentVars>>
    \/ \E m \in uiResponses : UiStatusResponse(m) /\ UNCHANGED <<backendVars, reqVars, agentVars>>
    \/ \E x \in AnyParticipants : ParticipantConnected(x) /\ UNCHANGED <<backendVars, reqVars, agentVars>>
    \/ \E x \in AnyParticipants : ParticipantDisconnected(x) /\ UNCHANGED <<backendVars, reqVars, agentVars>>
    \/ \E x \in AnyParticipants : TrackSubscribed(x) /\ UNCHANGED <<backendVars, reqVars, agentVars>>

SpecClassify == Init /\ [][NextClassify]_vars

----------------------------------------------------------------------------
(* createAgentForRoom and removeAgentFromRoom, whichever handler calls them. *)
(* An AIAgent is named by the number of the call that constructed it.       *)

\* createAgentForRoom up to `await this.ensureRoomExists(roomName)`
CreateAgentStart(roomName) ==
    /\ agentCount < MaxAgentRequests
    /\ agentCount' = agentCount + 1
    /\ agentRequests' = agentRequests \cup {[room |-> roomName, n |-> agentCount + 1]}
    /\ UNCHANGED <<activeAgents, agentReturns, agentRemovals>>

\* createAgentForRoom without the test `this.activeAgents.has(roomName)`
CreateAgentDoneUnchecked(q) ==
    /\ q \in agentRequests
    /\ agentRequests' = agentRequests \ {q}
    /\ activeAgents' = [activeAgents EXCEPT ![q.room] = q.n]
    /\ agentReturns' = agentReturns \cup {[n |-> q.n, room |-> q.room, agent |-> q.n]}
    /\ UNCHANGED <<agentCount, agentRemovals>>

\* ensureRoomExists returned: return the agent the room has, or construct one,
\* store it and return it
CreateAgentDone(q) ==
    /\ q \in agentRequests
    /\ agentRequests' = agentRequests \ {q}
    /\ IF activeAgents[q.room] # 0
       THEN /\ agentReturns' = agentReturns \cup
                   {[n |-> q.n, room |-> q.room, agent |-> activeAgents[q.room]]}
            /\ UNCHANGED activeAgents
       ELSE /\ activeAgents' = [activeAgents EXCEPT ![q.room] = q.n]
            /\ agentReturns' = agentReturns \cup
                   {[n |-> q.n, room |-> q.room, agent |-> q.n]}
    /\ UNCHANGED <<agentCount, agentRemovals>>

\* ensureRoomExists threw: the catch rethrows
CreateAgentFailed(q) ==
    /\ q \in agentRequests
    /\ agentRequests' = agentRequests \ {q}
    /\ UNCHANGED <<activeAgents, agentCount, agentReturns, agentRemovals>>

\* removeAgentFromRoom for a room that has an agent
removeAgentFromRoom(roomName) ==
    /\ activeAgents[roomName] # 0
    /\ activeAgents' = [activeAgents EXCEPT ![roomName] = 0]
    /\ agentRemovals' = agentRemovals + 1
    /\ UNCHANGED <<agentRequests, agentCount, agentReturns>>

NextAgents ==
    \/ \E r \in Rooms : CreateAgentStart(r) /\ UNCHANGED <<backendVars, uiVars, reqVars>>
    \/ \E q \in agentRequests : CreateAgentDone(q) /\ UNCHANGED <<backendVars, uiVars, reqVars>>
    \/ \E q \in agentRequests : CreateAgentFailed(q) /\ UNCHANGED <<backendVars, uiVars, reqVars>>
    \/ \E r \in Rooms : removeAgentFromRoom(r) /\ UNCHANGED <<backendVars, uiVars, reqVars>>

SpecAgents == Init /\ [][NextAgents]_vars

----------------------------------------------------------------------------
(* Two rooms, each with at most one call at a time, and every input that    *)
(* ends a call: poll result, operator endCall, webhook.                     *)
NextRooms ==
    \/ \E r \in Rooms : /\ Pending < MaxPending
                        /\ ~HasCall(r)
                        /\ \A c \in pendingCalls : c.room # r
                        /\ CallPatientStart(r)
                        /\ UNCHANGED <<uiVars, reqVars, agentVars>>
    \/ \E c \in pendingCalls : CallPatientDone(c) /\ UNCHANGED <<uiVars, reqVars, agentVars>>
    \/ \E s \in Sids : CarrierAdvance(s) /\ UNCHANGED <<uiVars, reqVars, agentVars>>
    \/ \E t \in timers : /\ Pending < MaxPending
                         /\ pollCount[t.sid] < MaxPolls
                         /\ PollTick(t)
                         /\ UNCHANGED <<uiVars, reqVars, agentVars>>
    \/ \E p \in BagToSet(polls) : PollDone(p) /\ UNCHANGED <<uiVars, reqVars, agentVars>>
    \/ \E r \in Rooms : Pending < MaxPending /\ EndCallStart(r) /\ UNCHANGED <<uiVars, reqVars, agentVars>>
    \/ \E h \in hangups, ok \in BOOLEAN : EndCallDone(h, ok) /\ UNCHANGED <<uiVars, reqVars, agentVars>>
    \/ \E s \in Sids, st \in Statuses : TwilioCallStatus(s, st) /\ UNCHANGED <<uiVars, reqVars, agentVars>>

SpecRooms == Init /\ [][NextRooms]_vars

----------------------------------------------------------------------------
(* Properties                                                               *)

\* the lifecycle state a carrier status stands for
CallState(status) ==
    CASE status \in {"queued", "initiated"}     -> "Requested"
      [] status = "ringing"                     -> "Ringing"
      [] status \in {"answered", "in-progress"} -> "Connected"
      [] OTHER                                  -> "Terminal"

StateRank(state) ==
    CASE state = "Requested" -> 1
      [] state = "Ringing"   -> 2
      [] state = "Connected" -> 3
      [] OTHER               -> 4

\* pending poll fetches of one call in a bag of requests
PendingFor(bag, callSid) ==
    BagCardinality([p \in {x \in DOMAIN bag : x.sid = callSid} |-> bag[p]])

TimersOf(callSid) == {t \in timers : t.sid = callSid}

\* C1: a call request for a room that holds a record is rejected: no carrier
\* call is placed for that room.
C1_CallAlreadyActive ==
    [][\A c \in pendingCalls' \ pendingCalls : ~HasCall(c.room)]_vars

\* C2: once markCallEnded has removed a call's record, no record with that call
\* SID appears again, and when every call of the room has ended and the browser
\* shows no active call, no later input makes it show one.
C2_TerminalIsFinal ==
    [][/\ \A s \in ended : RoomsOfSid(activeCalls', s) = {}
       /\ ( /\ ended # {}
            /\ ~HasCall(MainRoom)
            /\ pendingCalls = {}
            /\ {m \in uiResponses : m.kind = "call"} = {}
            /\ ~uiActiveCall ) => ~uiActiveCall']_vars

\* C3: while a room keeps the record of one call, every change of its status
\* moves forward along Requested -> Ringing -> Connected -> terminal.
C3_ForwardOnly ==
    [][\A r \in Rooms :
          (HasCall(r) /\ activeCalls'[r].sid = activeCalls[r].sid)
          => StateRank(CallState(activeCalls'[r].status))
                >= StateRank(CallState(activeCalls[r].status))]_vars

\* C4: every live interval belongs to a call whose record the room still holds.
C4_TimersHaveRecords ==
    \A t \in timers : activeCalls[t.room].sid = t.sid

\* C5: a 404 from getCallInfo for the call a room holds removes the record and
\* leaves the call without a live interval, in the step that handles the answer.
C5_NotFoundEnds ==
    [][/\ \A q \in queries \ queries' :
             (q.result = "404" /\ activeCalls[q.room].sid = q.sid)
             => (~HasCall(q.room))' /\ TimersOf(q.sid)' = {}
       /\ \A p \in BagToSet(polls) :
             (PendingFor(polls', p.sid) < PendingFor(polls, p.sid)
              /\ ~BagIn(p, polls') /\ p.result = "404"
              /\ activeCalls[p.room].sid = p.sid)
             => (~HasCall(p.room))' /\ TimersOf(p.sid)' = {}]_vars

\* C6: a call whose record was removed has had exactly one 'call-status-update'
\* event with active=false.
C6_ExactlyOneNotification ==
    \A s \in ended : notified[s] = 1

\* C7: when an operator endCall completes, whether the carrier request succeeded
\* or threw, the room holds no record afterwards.
C7_EndCallEndsLocally ==
    [][\A h \in hangups \ hangups' : (~HasCall(h.room))']_vars

\* an endCall has completed for a call the carrier still has live (the carrier
\* request threw), and no room holds its record
C7_Witness ==
    \E s \in hungUp : carrier[s] \in LiveStatuses /\ RoomsOfSid(activeCalls, s) = {}

\* C8: after an operator endCall has completed for a call, no getCallInfo request
\* is issued for its SID.
C8_NoFetchAfterEndCall ==
    [][\A s \in hungUp :
          /\ PendingFor(polls', s) <= PendingFor(polls, s)
          /\ \A q \in queries' \ queries : q.sid # s]_vars

\* C9: when StepDownPolls polls of a call have fired and returned and the call
\* still has its record, the 5 s interval is cleared and a 30 s interval runs.
C9_SteppedDown ==
    \A r \in Rooms :
       LET s == activeCalls[r].sid
       IN (HasCall(r) /\ pollCount[s] >= StepDownPolls /\ PendingFor(polls, s) = 0)
          => /\ Handle(r, s, "initial", 0) \notin timers
             /\ \E t \in timers : t.sid = s /\ t.phase = "extended"

\* C10: a call that is being polled and for which the carrier never reports a
\* terminal status nor 404 is eventually without interval and record.
C10_PollingEnds ==
    \A s \in Sids :
       [](carrier[s] \notin TerminalStatuses \cup {"gone"})
       => ((TimersOf(s) # {}) ~> (TimersOf(s) = {} /\ RoomsOfSid(activeCalls, s) = {}))

\* C11: a call never has more than one live interval.
C11_OneTimerPerCall ==
    \A s \in Sids : Cardinality(TimersOf(s)) <= 1

\* C12: a terminal carrier status fetched for the call a room holds, by a poll
\* callback or by the status query, removes the record in the step that handles it.
C12_TerminalStatusEnds ==
    [][/\ \A q \in queries \ queries' :
             (q.result \in TerminalStatuses /\ activeCalls[q.room].sid = q.sid)
             => (~HasCall(q.room))'
       /\ \A p \in BagToSet(polls) :
             (CopiesIn(p, polls') < CopiesIn(p, polls)
              /\ p.result \in TerminalStatuses /\ activeCalls[p.room].sid = p.sid)
             => (~HasCall(p.room))']_vars

\* C13: handling a poll whose getCallInfo failed with a transient error changes
\* neither the records nor the intervals nor the handles kept for them.
C13_TransientErrorFrame ==
    [][\A p \in BagToSet(polls) :
          (CopiesIn(p, polls') < CopiesIn(p, polls) /\ p.result = "error")
          => /\ activeCalls' = activeCalls
             /\ timers' = timers
             /\ callStatusPolling' = callStatusPolling]_vars

\* the 10th poll of a call has failed with a transient error and been handled: the
\* record is there and the 5 s interval is still the one that runs
C13_Witness ==
    \E s \in Sids :
       /\ activeCalls[MainRoom].sid = s
       /\ pollCount[s] = StepDownPolls
       /\ PendingFor(polls, s) = 0
       /\ timers = {Handle(MainRoom, s, "initial", 0)}

\* C14: a record with connected = TRUE has a status of state Ringing or Connected.
C14_ConnectedImpliesLive ==
    \A r \in Rooms :
       (HasCall(r) /\ activeCalls[r].connected)
       => CallState(activeCalls[r].status) \in {"Ringing", "Connected"}

\* C15: while a room holds a record, no step changes the call SID in it.
C15_SidNeverChanges ==
    [][\A r \in Rooms :
          (HasCall(r) /\ HasCall(r)') => activeCalls'[r].sid = activeCalls[r].sid]_vars

\* C16: every carrier request made for a call request names a room, comes from
\* a destination that is not blank, and carries a destination in E.164 form: a
\* request that lacks one of these is answered without a carrier request.
C16_InvalidRejectedFirst ==
    \A i \in 1..Len(placements) :
       /\ placements[i].room # <<>>
       /\ ~Blank(placements[i].phoneNumber)
       /\ IsE164(placements[i].to)

\* C17: for the call a room holds and every carrier status, the webhook handler
\* leaves the records as the 5 s poll callback does when it fetches that status.
C17_WebhookAsPoll ==
    \A r \in Rooms, st \in Statuses :
       HasCall(r)
       => LET callSid == activeCalls[r].sid
              p == [room |-> r, sid |-> callSid, phase |-> "initial", result |-> st]
          IN TwilioCallStatusResult(Now, callSid, st).calls = InitialPollResult(Now, p).calls

\* C18: when a participant that the browser classifies as the called party joins
\* while the room's call is ringing or connected, the browser shows an active call
\* and records that participant as the call participant.
C18_JoinedMakesActive ==
    [][\A x \in Participants :
          ( /\ x \notin uiParticipants /\ x \in uiParticipants'
            /\ IsSipParticipant(x, uiCallParticipantId)
            /\ HasCall(MainRoom)
            /\ CallState(activeCalls[MainRoom].status) \in {"Ringing", "Connected"} )
          => (uiActiveCall' /\ uiCallParticipantId' = x.sid)]_vars

\* the called party's SIP leg is in the room of a ringing or connected call and is
\* the recorded call participant of an active call
C18_Witness ==
    \E x \in uiParticipants :
       /\ IsSipParticipant(x, <<>>)
       /\ HasCall(MainRoom)
       /\ CallState(activeCalls[MainRoom].status) \in {"Ringing", "Connected"}
       /\ uiActiveCall
       /\ uiCallParticipantId = x.sid

\* C19: when a participant leaves the room the browser stays connected to, the
\* call ends in the browser exactly if it is the recorded call participant, and
\* then the call was active; any other departure leaves the call state as it is.
C19_LeftEndsOnlyForCallee ==
    [][\A x \in Participants :
          (x \in uiParticipants /\ x \notin uiParticipants' /\ uiConnected')
          => IF x.sid = uiCallParticipantId
             THEN uiActiveCall /\ ~uiActiveCall' /\ uiCallParticipantId' = <<>>
             ELSE UNCHANGED <<uiActiveCall, uiCallParticipantId>>]_vars

\* the recorded call participant has left and the browser shows no call, while
\* the backend still holds the call's record and another participant is still there
C19_Witness ==
    /\ uiConnected
    /\ HasCall(MainRoom)
    /\ ~uiActiveCall
    /\ uiCallParticipantId = <<>>
    /\ \E x \in uiDeparted : IsSipParticipant(x, <<>>) /\ x \notin uiParticipants
    /\ \E y \in uiParticipants : ~IsSipParticipant(y, <<>>)

\* the carrier requests made for call request number req
PlacementsOf(req) == {i \in 1..Len(placements) : placements[i].req = req}

\* C20: a call request with a well-formed destination is answered with a failure
\* only after two carrier requests were made for it, the placement and its one
\* retry; one failed carrier request alone is never answered as a failure.
C20_FailureAfterOneRetry ==
    \A resp \in callResponses :
       ( /\ resp.status = 500
         /\ \A i \in PlacementsOf(resp.req) : IsE164(placements[i].to) )
       => Cardinality(PlacementsOf(resp.req)) = 2

\* C21: a step of the operator's status query, GET /call-status, changes no record:
\* status and connected flag of every room stay as they were.
C21_StatusQueryReadsOnly ==
    [][(queries' # queries) => activeCalls' = activeCalls]_vars

\* the rooms a step's input is for: the room of every request that returned in the
\* step, and for a webhook, which has no request, the room whose record it changed
InputRooms ==
    {h.room : h \in hangups \ hangups'}
    \cup {c.room : c \in pendingCalls \ pendingCalls'}
    \cup {p.room : p \in {x \in BagToSet(polls) : CopiesIn(x, polls') < CopiesIn(x, polls)}}
    \cup (IF hangups' = hangups /\ pendingCalls' = pendingCalls /\ polls' = polls
          THEN {r \in Rooms : activeCalls'[r] # activeCalls[r]} ELSE {})

\* C22: a step that handles an input for one room changes no other room's record
\* and cancels no interval of another room's call.
C22_OtherRoomsUntouched ==
    [][\A r \in Rooms \ InputRooms :
          /\ activeCalls'[r] = activeCalls[r]
          /\ {t \in timers : t.room = r} \subseteq timers']_vars

\* C23: markCallEnded invoked again for the same room and call, right after it has
\* run, changes nothing: records, polling entries and intervals stay as the first
\* invocation left them.
C23_StopIsIdempotent ==
    \A r \in Rooms, s \in Sids :
       markCallEnded(markCallEnded(Now, r, s), r, s) = markCallEnded(Now, r, s)

\* the webhook has ended a call and an operator endCall that was pending for it has
\* run markCallEnded for the same room and call once more: no record and no
\* interval of the call is left
C23_Witness ==
    \E s \in Sids :
       /\ notified[s] = 1
       /\ s \in hungUp
       /\ RoomsOfSid(activeCalls, s) = {}
       /\ TimersOf(s) = {}

\* C24: an operator endCall that completes for a call which another input has
\* ended already (markCallEnded has removed its record) changes no record, no
\* polling entry and no interval.
C24_EndCallOnEndedIsSafe ==
    [][\A h \in hangups \ hangups' :
          h.sid \in ended
          => /\ activeCalls' = activeCalls
             /\ callStatusPolling' = callStatusPolling
             /\ timers' = timers]_vars

\* C25: a call request whose carrier request fails changes no record, no polling
\* entry and no interval, neither when the carrier request is sent nor when its
\* failure is handled, and the request is answered with the error.
C25_FailedPlacementLeavesNothing ==
    [][/\ \A c \in pendingCalls' \ pendingCalls :
             c.sid = <<>> => UNCHANGED <<activeCalls, callStatusPolling, timers>>
       /\ \A c \in pendingCalls \ pendingCalls' :
             c.sid = <<>>
             => /\ UNCHANGED <<activeCalls, callStatusPolling, timers>>
                /\ [req |-> requestCount, status |-> 500] \in callResponses']_vars

\* a first request has placed a call; a second request with a well-formed
\* destination failed at the carrier and was answered 500, and the room holds the
\* first call's record and its one interval as before
C25_Witness ==
    /\ [req |-> 1, status |-> 200] \in callResponses
    /\ [req |-> 2, status |-> 500] \in callResponses
    /\ \A i \in PlacementsOf(2) : IsE164(placements[i].to)
    /\ activeCalls[MainRoom].sid = SidOf(1)
    /\ timers = {Handle(MainRoom, SidOf(1), "initial", 0)}

\* C26: the browser's status polling of a call fires at most UiMaxPolls times and
\* its interval is cleared with the last of them, and the interval is cleared in
\* the step that handles a poll response with a terminal status.
C26_UiPollingStops ==
    /\ [](\A s \in Sids : /\ uiPollCount[s] <= UiMaxPolls
                           /\ s \in uiPollTimers => uiPollCount[s] < UiMaxPolls)
    /\ [][\A m \in uiResponses \ uiResponses' :
             (m.kind = "status" /\ m.status \in TerminalStatuses)
             => m.sid \notin uiPollTimers']_vars

\* a call that is still live at the carrier has been polled UiMaxPolls times by the
\* browser and its polling interval is gone
C26_Witness ==
    \E s \in Sids :
       /\ uiPollCount[s] = UiMaxPolls
       /\ s \notin uiPollTimers
       /\ activeCalls[MainRoom].sid = s
       /\ carrier[s] \in LiveStatuses

\* C27: a step that handles the poll result of one call leaves the record of a room
\* that holds another call as it is.
C27_PollActsOnOwnRecord ==
    [][\A p \in BagToSet(polls) :
          ( /\ CopiesIn(p, polls') < CopiesIn(p, polls)
            /\ HasCall(p.room)
            /\ activeCalls[p.room].sid # p.sid )
          => activeCalls'[p.room] = activeCalls[p.room]]_vars

\* C28: while the browser is not connected to a room it shows no active call and
\* holds no call participant id.
C28_ActiveOnlyWhenConnected ==
    (uiActiveCall \/ uiCallParticipantId # <<>>) => uiConnected

\* C29: for every participant in the room and the call participant id stored at
\* the time, the join handler and the track-subscribed handler (one expression),
\* the status poll's scan and the call component classify alike.
C29_ClassifiersAgree ==
    \A x \in uiParticipants :
       /\ IsSipParticipant(x, uiCallParticipantId) = CouldBePhoneParticipant(x)
       /\ IsSipParticipant(x, uiCallParticipantId) = ComponentIsSipParticipant(x)

\* the agents that createAgentForRoom calls have constructed
AgentsMade == {ret.agent : ret \in {x \in agentReturns : x.agent = x.n}}

\* C30: every agent that was constructed is the agent of its room or was removed
\* by removeAgentFromRoom, so no room ever has a second agent; and in every step
\* a room that has an agent keeps that agent, or loses it by removeAgentFromRoom.
C30_OneAgentPerRoom ==
    /\ [](Cardinality(AgentsMade) - agentRemovals
             = Cardinality({r \in Rooms : activeAgents[r] # 0}))
    /\ [][\A r \in Rooms :
             activeAgents[r] # 0
             => \/ activeAgents'[r] = activeAgents[r]
                \/ activeAgents'[r] = 0 /\ agentRemovals' = agentRemovals + 1]_vars

\* two createAgentForRoom calls for one room overlapped: the second call stored
\* its agent first, and the first call, returning later, returned that agent
C30_Witness ==
    /\ activeAgents[MainRoom] = 2
    /\ [n |-> 1, room |-> MainRoom, agent |-> 2] \in agentReturns
    /\ [n |-> 2, room |-> MainRoom, agent |-> 2] \in agentReturns

====
